---- MODULE Spec2Model ----
(***************************************************************************)
(* NL2SQL Studio (src/app.js): the natural-language query pipeline         *)
(* NL2SQLApp.executeNLQuery, the provider call NL2SQLApp.callLLM, the      *)
(* schema reader NL2SQLApp.getSchemaForLLM and the SQL editor's            *)
(* NL2SQLApp.runSQL, over an embedded relational engine.                   *)
(*                                                                         *)
(* Texts (questions, model responses, SQL) are sequences of tokens. A      *)
(* token is a string: a whole SQL statement ("SELECT a"), a separator      *)
(* (";"), white space (" ", "\n"), a code fence of three backticks         *)
(* ("<fence>"), a fence tag ("sql"), a single backtick ("<tick>") or a     *)
(* word of prose.                                                          *)
(***************************************************************************)
EXTENDS Integers, Sequences, FiniteSets, TLC

(* ------------------------------ bounds -------------------------------- *)

\* rows a table can hold before the engine reports that it is full
MaxRows == 2
\* user actions other than starting a query (settings, databases, editor)
MaxUser == 1
\* tokens of a completion when every completion up to that length is tried
MaxText == 4
\* tables of a database when every catalog up to that length is tried
MaxTables == 3

(* ------------------------------ texts --------------------------------- *)

WS == {" ", "\n"}

\* three backticks, and one backtick
Fence == "<fence>"
Tick == "<tick>"

\* String.prototype.trim: drop leading and trailing white space
Trim(s) ==
    LET keep == {k \in DOMAIN s : s[k] \notin WS}
    IN  IF keep = {} THEN <<>>
        ELSE LET lo == CHOOSE k \in keep : \A j \in keep : k <= j
                 hi == CHOOSE k \in keep : \A j \in keep : j <= k
             IN  SubSeq(s, lo, hi)

\* s.split(';'): the pieces between the semicolons, in order
RECURSIVE SplitSemi(_)
SplitSemi(s) ==
    LET semis == {k \in DOMAIN s : s[k] = ";"}
    IN  IF semis = {} THEN <<s>>
        ELSE LET k == CHOOSE x \in semis : \A y \in semis : x <= y
             IN  <<SubSeq(s, 1, k - 1)>> \o SplitSemi(SubSeq(s, k + 1, Len(s)))

NonBlank(piece) == Trim(piece) # <<>>

(* ------------------------------ engine -------------------------------- *)
(* The embedded engine (sql.js) is an external collaborator. A database is *)
(* the sequence of its tables in catalog order, each with a row count. A   *)
(* statement either raises (with the engine's message), or returns no      *)
(* result object, or returns one result object {columns, values}.          *)

\* "order" is a table whose name is a reserved word: it exists only in a
\* database that was loaded, and a PRAGMA on its bare name is a syntax error;
\* "c" is a table for which the engine reports no column
TableNames == {"a", "b", "c", "order"}

StmtTokens == {"SELECT 1", "SELECT a", "SELECT b", "INSERT a", "CREATE a", "CREATE b"}

StmtOp(tok) ==
    CASE tok = "SELECT 1" -> "const"
      [] tok \in {"SELECT a", "SELECT b"} -> "select"
      [] tok = "INSERT a" -> "insert"
      [] tok \in {"CREATE a", "CREATE b"} -> "create"

StmtTable(tok) ==
    CASE tok \in {"SELECT a", "INSERT a", "CREATE a"} -> "a"
      [] tok \in {"SELECT b", "CREATE b"} -> "b"
      [] OTHER -> ""

\* PRAGMA table_info rows: <<name, type, notnull, pk>>
TableInfo(t) ==
    CASE t = "a" -> << <<"id", "INTEGER", 0, 1>>, <<"label", "TEXT", 1, 0>> >>
      [] t = "b" -> << <<"aid", "INTEGER", 1, 0>> >>
      [] OTHER -> <<>>

\* PRAGMA foreign_key_list rows: <<id, seq, table, from, to>>
ForeignKeyList(t) ==
    CASE t = "a" -> <<>>
      [] t = "b" -> << <<0, 0, "a", "aid", "id">> >>
      [] OTHER -> <<>>

ColumnNames(t) == [k \in DOMAIN TableInfo(t) |-> TableInfo(t)[k][1]]

\* the catalog listing: the names of the tables, in the engine's order
Catalog(dbc) == [k \in DOMAIN dbc |-> dbc[k].name]

HasTable(dbc, t) == \E k \in DOMAIN dbc : dbc[k].name = t

RowsOf(dbc, t) == LET k == CHOOSE x \in DOMAIN dbc : dbc[x].name = t IN dbc[k].rows

\* the result object of a statement that returned n rows
ResultObject(cols, n) == [columns |-> cols, values |-> [k \in 1..n |-> <<k>>]]

Raise(dbc, msg) == [raised |-> TRUE, message |-> msg, db |-> dbc, results |-> <<>>]
Ran(dbc, res) == [raised |-> FALSE, message |-> <<>>, db |-> dbc, results |-> res]

\* One statement. zr: whether this engine hands back a result object for a
\* query that returned no row (sql.js does not; the engine contract allows it).
ExecStmt(dbc, tok, zr) ==
    LET t == StmtTable(tok)
    IN  CASE StmtOp(tok) = "const" -> Ran(dbc, <<ResultObject(<<"1">>, 1)>>)
          [] StmtOp(tok) = "select" ->
                IF ~HasTable(dbc, t) THEN Raise(dbc, <<"no such table", t>>)
                ELSE IF RowsOf(dbc, t) = 0 /\ ~zr THEN Ran(dbc, <<>>)
                ELSE Ran(dbc, <<ResultObject(ColumnNames(t), RowsOf(dbc, t))>>)
          [] StmtOp(tok) = "insert" ->
                IF ~HasTable(dbc, t) THEN Raise(dbc, <<"no such table", t>>)
                ELSE IF RowsOf(dbc, t) >= MaxRows THEN Raise(dbc, <<"database or disk is full", t>>)
                ELSE Ran([k \in DOMAIN dbc |->
                              IF dbc[k].name = t
                              THEN [dbc[k] EXCEPT !.rows = @ + 1] ELSE dbc[k]], <<>>)
          [] StmtOp(tok) = "create" ->
                IF HasTable(dbc, t) THEN Raise(dbc, <<"table already exists", t>>)
                ELSE Ran(Append(dbc, [name |-> t, rows |-> 0]), <<>>)

\* The statements of a text, one after the other, from the database dbc on:
\* the first statement that raises ends the run, what ran before it stays
\* applied, and the result objects are lost with the exception.
RECURSIVE ExecPieces(_, _, _, _)
ExecPieces(dbc, pieces, zr, acc) ==
    IF pieces = <<>> THEN Ran(dbc, acc)
    ELSE LET st == SelectSeq(Head(pieces), LAMBDA x : x \notin WS)
         IN  IF st = <<>> THEN ExecPieces(dbc, Tail(pieces), zr, acc)
             ELSE IF Len(st) # 1 \/ st[1] \notin StmtTokens
                  THEN Raise(dbc, <<"syntax error", st[1]>>)
             ELSE LET r == ExecStmt(dbc, st[1], zr)
                  IN  IF r.raised THEN r
                      ELSE ExecPieces(r.db, Tail(pieces), zr, acc \o r.results)

\* Database.exec(sql)
EngineExec(dbc, sql, zr) == ExecPieces(dbc, SplitSemi(sql), zr, <<>>)

(* --------------------------- schema text ------------------------------ *)
(* The schema text is a sequence of lines; a line is a tuple of strings.   *)

Flag(v, text) == IF v # 0 THEN text ELSE ""

ColumnLine(col) ==
    <<"  - ", col[1], " (", col[2], ")", Flag(col[4], " PRIMARY KEY"), Flag(col[3], " NOT NULL")>>

ForeignKeyLine(fk) == <<"  - ", fk[4], " -> ", fk[3], ".", fk[5]>>

\* TableBlock that leaves out a table without columns
TableBlockSkipEmpty(t) ==
    LET cols == TableInfo(t)
        fks  == ForeignKeyList(t)
    IN  IF cols = <<>> THEN <<>>
        ELSE << <<"Table: ", t>>, <<"Columns:">> >>
             \o [k \in DOMAIN cols |-> ColumnLine(cols[k])]
             \o (IF fks # <<>>
                 THEN << <<"Foreign Keys:">> >> \o [k \in DOMAIN fks |-> ForeignKeyLine(fks[k])]
                 ELSE <<>>)
             \o << <<"">> >>

\* the block of one table: header, columns, foreign keys (if any), blank line
TableBlock(t) ==
    LET cols == TableInfo(t)
        fks  == ForeignKeyList(t)
    IN  << <<"Table: ", t>> >>
        \o (IF cols # <<>>
            THEN << <<"Columns:">> >> \o [k \in DOMAIN cols |-> ColumnLine(cols[k])]
            ELSE <<>>)
        \o (IF fks # <<>>
            THEN << <<"Foreign Keys:">> >> \o [k \in DOMAIN fks |-> ForeignKeyLine(fks[k])]
            ELSE <<>>)
        \o << <<"">> >>

\* SchemaBlocks with the number of rows of each table added to its block
RECURSIVE SchemaBlocksWithRows(_)
SchemaBlocksWithRows(dbc) ==
    IF dbc = <<>> THEN <<>>
    ELSE << <<"Rows: ", Head(dbc).rows>> >> \o TableBlock(Head(dbc).name)
         \o SchemaBlocksWithRows(Tail(dbc))

\* the PRAGMA statements take the bare table name: a reserved word raises
PragmaRaises(t) == t = "order"

RECURSIVE SchemaBlocks(_)
SchemaBlocks(dbc) ==
    IF dbc = <<>> THEN <<>> ELSE TableBlock(Head(dbc).name) \o SchemaBlocks(Tail(dbc))

\* getSchemaForLLM with the PRAGMA statements in a try of their own: a table
\* whose PRAGMA raises is left out and the read goes on
getSchemaForLLMTolerant(dbc) ==
    [raised |-> FALSE, message |-> <<>>,
     text |-> SchemaBlocks(SelectSeq(dbc, LAMBDA t : ~PragmaRaises(t.name)))]

\* getSchemaForLLM: the text, or the engine's error at the first table whose
\* PRAGMA raises
getSchemaForLLM(dbc) ==
    LET bad == {k \in DOMAIN dbc : PragmaRaises(dbc[k].name)}
    IN  IF bad # {}
        THEN LET k == CHOOSE x \in bad : \A y \in bad : x <= y
             IN  [raised |-> TRUE, message |-> <<"syntax error", dbc[k].name>>, text |-> <<>>]
        ELSE [raised |-> FALSE, message |-> <<>>, text |-> SchemaBlocks(dbc)]

(* ------------------------------ prompts ------------------------------- *)
(* A prompt is its template's name followed by the values spliced into it. *)

PreviewRows == 5

generatePrompt(naturalQuery, schema) == <<"generate", schema, naturalQuery>>

\* fixPrompt without the schema
fixPromptNoSchema(sqlQuery, errorMessage, schema) == <<"repair", sqlQuery, errorMessage, <<>> >>

\* fixPrompt without the engine's message
fixPromptNoError(sqlQuery, errorMessage, schema) == <<"repair", sqlQuery, <<>>, schema>>

fixPrompt(sqlQuery, errorMessage, schema) == <<"repair", sqlQuery, errorMessage, schema>>

explainPrompt(question, sqlQuery, result) ==
    <<"explain", question, sqlQuery, result.columns,
      SubSeq(result.values, 1, IF Len(result.values) < PreviewRows
                               THEN Len(result.values) ELSE PreviewRows)>>

(* ------------------------- response cleaning -------------------------- *)

\* cleanLLMResponse with a greedy content group: up to the last fence
cleanLLMResponseGreedy(response) ==
    IF response = <<>> THEN response
    ELSE LET fences == {k \in DOMAIN response : response[k] = Fence}
         IN  IF Cardinality(fences) >= 2
             THEN LET i == CHOOSE x \in fences : \A y \in fences : x <= y
                      j == CHOOSE x \in fences : \A y \in fences : y <= x
                      start == IF i + 1 < j /\ response[i + 1] \in {"sql", "SQL"}
                               THEN i + 2 ELSE i + 1
                  IN  Trim(SubSeq(response, start, j - 1))
             ELSE Trim(response)

\* cleanLLMResponse: the trimmed content of the first fenced block (an
\* opening fence, an optional sql tag, the shortest content up to the next
\* fence), or the trimmed text when there is no such block
cleanLLMResponse(response) ==
    IF response = <<>> THEN response
    ELSE LET fences == {k \in DOMAIN response : response[k] = Fence}
         IN  IF Cardinality(fences) >= 2
             THEN LET i == CHOOSE x \in fences : \A y \in fences : x <= y
                      j == CHOOSE x \in fences \ {i} : \A y \in fences \ {i} : x <= y
                      start == IF i + 1 < j /\ response[i + 1] \in {"sql", "SQL"}
                               THEN i + 2 ELSE i + 1
                  IN  Trim(SubSeq(response, start, j - 1))
             ELSE Trim(response)

(* ---------------------------- application ----------------------------- *)

DbNames == {"x.db", "y.db"}

\* this.db === null
NoDb == ""

KnownProviders == {"openai", "gemini", "groq"}

\* a provider name left in the saved settings that callLLM has no branch for
Providers == KnownProviders \cup {"lmstudio"}

ApiKeys == {"", "key"}

Questions == {<<>>, <<" ">>, <<"how many rows">>}

\* raw completions a model may return for a generate or a repair prompt
SqlResponses ==
    { <<"SELECT 1">>,
      <<"SELECT a">>,
      <<"CREATE b">>,
      <<"SELECT a", ";", "INSERT a", ";", "SELECT b">>,
      <<"SELECT 1", ";", " ", "SELECT a", ";">>,
      <<Fence, "sql", "\n", "SELECT a", "\n", Fence>>,
      <<Tick, "SELECT 1", Tick>>,
      <<>> }

\* raw completions for an explain prompt
ExplainResponses == { <<"there is one row">> }

\* databases found in local storage at start-up (loadSavedDatabases)
SavedContents ==
    { <<[name |-> "a", rows |-> 1]>>,
      <<[name |-> "a", rows |-> 0], [name |-> "b", rows |-> 0]>>,
      <<[name |-> "order", rows |-> 0]>> }

\* the invocations of executeNLQuery that are followed, and the one that
\* runs alone
Invs == {1, 2}
Solo == {1}

VARIABLES
    db,            \* this.db: the name of the current database, or NoDb
    databases,     \* this.databases: name -> database
    settings,      \* this.settings: provider and apiKey
    inv,           \* per invocation of executeNLQuery: its position and locals
    nlResults,     \* the content of the nlResults element
    queryHistory,  \* this.queryHistory
    sqlResults,    \* the content of the sqlResults element
    runLog,        \* what the last runSQL executed: <<"exec", db, statement,
                   \* raised, message, results>> per db.exec call
    user           \* user actions taken so far (bounded by MaxUser)

vars == <<db, databases, settings, inv, nlResults, queryHistory, sqlResults, runLog, user>>

NoReq == [provider |-> "", apiKey |-> "", purpose |-> "", prompt |-> <<>>]

\* An invocation: pc is where it is suspended ("generating", "explaining",
\* "repairing": in the fetch of that provider call), end is how it ended
\* ("precondition": an early return, "displayed": line 484, "error": the
\* outer catch). log records what it did:
\* <<"schema", db, the catalog listing it got>>,
\* <<"call", purpose, prompt>>, <<"fetch", purpose, provider, apiKey>>,
\* <<"response", purpose, the completion as the provider sent it>>,
\* <<"failed", purpose, kind, status text>> for a fetch that brought none,
\* <<"exec", db, sql, raised, message, results>>.
NewInv ==
    [pc |-> "idle", end |-> "", alert |-> "", query |-> <<>>, schema |-> <<>>,
     sqlQuery |-> <<>>, html |-> <<>>, sqlError |-> <<>>, fixedSQL |-> <<>>,
     req |-> NoReq, thrown |-> <<>>, log |-> <<>>]

HistoryKeep == 10

InitSettings ==
    {[provider |-> "openai", apiKey |-> ""]}
    \cup {[provider |-> p, apiKey |-> "key"] : p \in {"openai", "lmstudio"}}

\* after the constructor and init(): the saved settings or the defaults, the
\* saved databases with the first of them current
Init ==
    /\ \/ db = NoDb /\ databases = <<>>
       \/ \E c \in SavedContents : db = "x.db" /\ databases = ("x.db" :> c)
       \/ /\ db = "x.db"
          /\ databases = ("x.db" :> <<[name |-> "a", rows |-> 1]>>) @@ ("y.db" :> <<>>)
    /\ settings \in InitSettings
    /\ inv = [i \in Invs |-> NewInv]
    /\ nlResults = <<>>
    /\ queryHistory = <<>>
    /\ sqlResults = <<>>
    /\ runLog = <<>>
    /\ user = 0

(* ------------------------------ callLLM ------------------------------- *)

Log(v, e) == [v EXCEPT !.log = Append(@, e)]

Html(v, fragment) == [v EXCEPT !.html = Append(@, fragment)]

Awaiting(purpose) ==
    CASE purpose = "generate" -> "generating"
      [] purpose = "explain" -> "explaining"
      [] purpose = "repair" -> "repairing"

\* callLLM with a last branch that takes any other provider for openai
callLLMDefault(v, purpose, prompt) ==
    LET provider == IF settings.provider \in KnownProviders THEN settings.provider ELSE "openai"
    IN  [Log(Log(v, <<"call", purpose, prompt>>),
             <<"fetch", purpose, provider, settings.apiKey>>)
            EXCEPT !.pc = Awaiting(purpose),
                   !.req = [provider |-> provider, apiKey |-> settings.apiKey,
                            purpose |-> purpose, prompt |-> prompt]]

\* callLLM up to its fetch: the provider and the key are read from the
\* settings as they are now; a provider without a branch throws before any
\* request is made
callLLM(v, purpose, prompt) ==
    LET v1 == Log(v, <<"call", purpose, prompt>>)
    IN  IF settings.provider \in KnownProviders
        THEN [Log(v1, <<"fetch", purpose, settings.provider, settings.apiKey>>)
                EXCEPT !.pc = Awaiting(purpose),
                       !.req = [provider |-> settings.provider, apiKey |-> settings.apiKey,
                                purpose |-> purpose, prompt |-> prompt]]
        ELSE [v1 EXCEPT !.thrown = <<"Unknown LLM provider">>]

ProviderLabel(provider) ==
    CASE provider = "openai" -> "OpenAI API error"
      [] provider = "gemini" -> "Gemini API error"
      [] provider = "groq" -> "Groq API error"

\* what a fetch can come back with: the request fails, the status is not
\* ok, or a completion text
FetchOutcomes(texts) ==
    {[kind |-> "rejected", text |-> <<>>],
     [kind |-> "status", text |-> <<"Unauthorized">>]}
    \cup {[kind |-> "ok", text |-> t] : t \in texts}

\* callLLMReturn without the test of response.ok: the body of the error
\* response is read as a completion, and reading it throws
callLLMReturnUnchecked(req, out) ==
    CASE out.kind = "ok" -> [thrown |-> <<>>, text |-> cleanLLMResponse(out.text)]
      [] out.kind = "status" ->
            [thrown |-> <<"Cannot read properties of undefined">>, text |-> <<>>]
      [] out.kind = "rejected" -> [thrown |-> <<"Failed to fetch">>, text |-> <<>>]

\* callLLM from its fetch on, in the branch of the provider it started with
callLLMReturn(req, out) ==
    CASE out.kind = "ok" -> [thrown |-> <<>>, text |-> cleanLLMResponse(out.text)]
      [] out.kind = "status" ->
            [thrown |-> <<ProviderLabel(req.provider), out.text[1]>>, text |-> <<>>]
      [] out.kind = "rejected" -> [thrown |-> <<"Failed to fetch">>, text |-> <<>>]

(* -------------------------- executeNLQuery ---------------------------- *)

\* an early return of the precondition checks, with its alert
EarlyReturn(message) == [NewInv EXCEPT !.pc = "done", !.end = "precondition", !.alert = message]

\* executeNLQuery without its outer catch: what is thrown leaves the handler
\* as an unhandled rejection and nothing is displayed
OuterCatchMissing(v) == [v EXCEPT !.pc = "done", !.end = "unhandled", !.req = NoReq]

\* the outer catch (lines 489-491): v.thrown is displayed
OuterCatch(v) == [v EXCEPT !.pc = "done", !.end = "error", !.req = NoReq]

\* lines 484-487: the accumulated html is displayed
Display(v) == [v EXCEPT !.pc = "done", !.end = "displayed", !.req = NoReq]

\* the catch (sqlError) block up to the fetch of fixSQL (lines 455-460)
fixSQL(v, message) ==
    LET v1 == Html(Html([v EXCEPT !.sqlError = message, !.thrown = <<>>, !.req = NoReq],
                        <<"SQL Error", message>>),
                   <<"Attempting to fix SQL">>)
        v2 == callLLM(v1, "repair", fixPrompt(v.sqlQuery, message, v.schema))
    IN  IF v2.thrown # <<>> THEN OuterCatch(v2) ELSE v2

\* a result object counts only when it has rows
HasRows(results) == Len(results) > 0 /\ Len(results[1].values) > 0

\* results.length > 0 (lines 436, 475 and 705)
HasResults(results) == Len(results) > 0

\* the part of the results that lines 436-438 keep
FirstResult(results) == results[1]

\* ExecuteGenerated inside a transaction that is rolled back when the SQL raises
ExecuteGeneratedRollback(v, sql, dbc, zr) ==
    LET v1 == Html([v EXCEPT !.sqlQuery = sql, !.req = NoReq], <<"Generated SQL", sql>>)
        r  == EngineExec(dbc, sql, zr)
        v2 == Log(v1, <<"exec", db, sql, r.raised, r.message, r.results>>)
    IN  IF r.raised
        THEN [v |-> fixSQL(v2, r.message), dbc |-> dbc]
        ELSE IF HasResults(r.results)
        THEN LET v3 == Html(v2, <<"Results", FirstResult(r.results)>>)
                 v4 == callLLM(v3, "explain",
                               explainPrompt(v.query, sql, FirstResult(r.results)))
             IN  [v |-> IF v4.thrown # <<>> THEN fixSQL(v4, v4.thrown) ELSE v4,
                  dbc |-> r.db]
        ELSE [v |-> Display(Html(v2, <<"Query returned no results">>)), dbc |-> r.db]

\* lines 417-454: show the generated SQL, execute it on the current
\* database dbc, and go on by its outcome
ExecuteGenerated(v, sql, dbc, zr) ==
    LET v1 == Html([v EXCEPT !.sqlQuery = sql, !.req = NoReq], <<"Generated SQL", sql>>)
        r  == EngineExec(dbc, sql, zr)
        v2 == Log(v1, <<"exec", db, sql, r.raised, r.message, r.results>>)
    IN  IF r.raised
        THEN [v |-> fixSQL(v2, r.message), dbc |-> r.db]
        ELSE IF HasResults(r.results)
        THEN LET v3 == Html(v2, <<"Results", FirstResult(r.results)>>)
                 v4 == callLLM(v3, "explain",
                               explainPrompt(v.query, sql, FirstResult(r.results)))
             IN  [v |-> IF v4.thrown # <<>> THEN fixSQL(v4, v4.thrown) ELSE v4,
                  dbc |-> r.db]
        ELSE [v |-> Display(Html(v2, <<"Query returned no results">>)), dbc |-> r.db]

\* line 461 without the comparison with the original
RunsFixedUnchanged(fixedSQL, sqlQuery) == fixedSQL # <<>>

\* whether line 461 lets the repaired SQL run
RunsFixed(fixedSQL, sqlQuery) == fixedSQL # <<>> /\ fixedSQL # sqlQuery

\* ExecuteFixed with a repair loop: a repaired SQL that raises is repaired again
ExecuteFixedAgain(v, fixedSQL, dbc, zr) ==
    LET v1 == [v EXCEPT !.fixedSQL = fixedSQL, !.req = NoReq]
    IN  IF RunsFixed(fixedSQL, v.sqlQuery)
        THEN LET v2 == Html(v1, <<"Fixed SQL", fixedSQL>>)
                 r  == EngineExec(dbc, fixedSQL, zr)
                 v3 == Log(v2, <<"exec", db, fixedSQL, r.raised, r.message, r.results>>)
             IN  [v |-> IF r.raised
                        THEN fixSQL([v3 EXCEPT !.sqlQuery = fixedSQL], r.message)
                        ELSE Display(IF HasResults(r.results)
                                     THEN Html(v3, <<"Results", FirstResult(r.results)>>)
                                     ELSE v3),
                  dbc |-> r.db]
        ELSE [v |-> Display(v1), dbc |-> dbc]

\* ExecuteFixed with an empty catch: the error of the repaired SQL is dropped
ExecuteFixedSilent(v, fixedSQL, dbc, zr) ==
    LET v1 == [v EXCEPT !.fixedSQL = fixedSQL, !.req = NoReq]
    IN  IF RunsFixed(fixedSQL, v.sqlQuery)
        THEN LET v2 == Html(v1, <<"Fixed SQL", fixedSQL>>)
                 r  == EngineExec(dbc, fixedSQL, zr)
                 v3 == Log(v2, <<"exec", db, fixedSQL, r.raised, r.message, r.results>>)
             IN  [v |-> Display(IF ~r.raised /\ HasResults(r.results)
                                THEN Html(v3, <<"Results", FirstResult(r.results)>>)
                                ELSE v3),
                  dbc |-> r.db]
        ELSE [v |-> Display(v1), dbc |-> dbc]

\* ExecuteFixed that asks for an explanation of the rows of the repaired SQL
ExecuteFixedExplained(v, fixedSQL, dbc, zr) ==
    LET v1 == [v EXCEPT !.fixedSQL = fixedSQL, !.req = NoReq]
    IN  IF RunsFixed(fixedSQL, v.sqlQuery)
        THEN LET v2 == Html(v1, <<"Fixed SQL", fixedSQL>>)
                 r  == EngineExec(dbc, fixedSQL, zr)
                 v3 == Log(v2, <<"exec", db, fixedSQL, r.raised, r.message, r.results>>)
             IN  [v |-> IF r.raised
                        THEN Display(Html(v3, <<"Fixed SQL also failed", r.message>>))
                        ELSE IF HasResults(r.results)
                        THEN LET v4 == callLLM(Html(v3, <<"Results", FirstResult(r.results)>>),
                                               "explain",
                                               explainPrompt(v.query, fixedSQL,
                                                             FirstResult(r.results)))
                             IN  IF v4.thrown # <<>> THEN OuterCatch(v4) ELSE v4
                        ELSE Display(v3),
                  dbc |-> r.db]
        ELSE [v |-> Display(v1), dbc |-> dbc]

\* lines 460-484: the repaired SQL comes back
ExecuteFixed(v, fixedSQL, dbc, zr) ==
    LET v1 == [v EXCEPT !.fixedSQL = fixedSQL, !.req = NoReq]
    IN  IF RunsFixed(fixedSQL, v.sqlQuery)
        THEN LET v2 == Html(v1, <<"Fixed SQL", fixedSQL>>)
                 r  == EngineExec(dbc, fixedSQL, zr)
                 v3 == Log(v2, <<"exec", db, fixedSQL, r.raised, r.message, r.results>>)
             IN  [v |-> Display(IF r.raised
                                THEN Html(v3, <<"Fixed SQL also failed", r.message>>)
                                ELSE IF HasResults(r.results)
                                THEN Html(v3, <<"Results", FirstResult(r.results)>>)
                                ELSE v3),
                  dbc |-> r.db]
        ELSE [v |-> Display(v1), dbc |-> dbc]

\* what the nlResults element holds after a step that left invocation v
Shown(v, before) ==
    CASE v.end = "displayed" -> v.html
      [] v.end = "error" -> << <<"Error", v.thrown>> >>
      [] OTHER -> before

\* addToHistory, called when the html was displayed
addToHistory(v, history) ==
    IF v.end = "displayed"
    THEN LET h == <<v.query>> \o history
         IN  SubSeq(h, 1, IF Len(h) < HistoryKeep THEN Len(h) ELSE HistoryKeep)
    ELSE history

\* the checks without the one of the API key
PreconditionAlertNoKey(query) ==
    IF query = <<>> THEN "Please enter a question"
    ELSE IF db = NoDb THEN "Please load a database first"
    ELSE ""

\* the checks of lines 391-405: the alert of the first one that fails, or ""
PreconditionAlert(query) ==
    IF query = <<>> THEN "Please enter a question"
    ELSE IF db = NoDb THEN "Please load a database first"
    ELSE IF settings.apiKey = "" THEN "Please configure your API key in settings"
    ELSE ""

\* a click on the query button or Enter in the question box: lines 389-415
executeNLQuery(i, nlInput) ==
    /\ inv[i].pc = "idle"
    /\ \A j \in Invs : j < i => inv[j].pc # "idle"
    /\ LET query == Trim(nlInput)
       IN  IF PreconditionAlert(query) # ""
           THEN /\ inv' = [inv EXCEPT ![i] = EarlyReturn(PreconditionAlert(query))]
                /\ UNCHANGED nlResults
           ELSE LET s  == getSchemaForLLM(databases[db])
                    v1 == Log([NewInv EXCEPT !.query = query], <<"schema", db, Catalog(databases[db])>>)
                    v2 == IF s.raised
                          THEN OuterCatch([v1 EXCEPT !.thrown = s.message])
                          ELSE LET v3 == callLLM([v1 EXCEPT !.schema = s.text], "generate",
                                                 generatePrompt(query, s.text))
                               IN  IF v3.thrown # <<>> THEN OuterCatch(v3) ELSE v3
                IN  /\ inv' = [inv EXCEPT ![i] = v2]
                    /\ nlResults' = Shown(v2, << <<"spinner">> >>)
    /\ UNCHANGED <<db, databases, settings, queryHistory, sqlResults, runLog, user>>

\* the fetch of generateSQL comes back: lines 415-460
GenerateReturns(i, out, zr) ==
    /\ inv[i].pc = "generating"
    /\ LET r == callLLMReturn(inv[i].req, out)
       IN  IF r.thrown # <<>>
           THEN /\ inv' = [inv EXCEPT ![i] =
                              OuterCatch([Log(@, <<"failed", "generate", out.kind, out.text>>)
                                             EXCEPT !.thrown = r.thrown])]
                /\ UNCHANGED databases
           ELSE LET e == ExecuteGenerated(Log(inv[i], <<"response", "generate", out.text>>),
                                          r.text, databases[db], zr)
                IN  /\ inv' = [inv EXCEPT ![i] = e.v]
                    /\ databases' = [databases EXCEPT ![db] = e.dbc]
    /\ nlResults' = Shown(inv'[i], nlResults)
    /\ queryHistory' = addToHistory(inv'[i], queryHistory)
    /\ UNCHANGED <<db, settings, sqlResults, runLog, user>>

\* the fetch of getExplanation comes back: lines 441-460 and 484-487
ExplainReturns(i, out) ==
    /\ inv[i].pc = "explaining"
    /\ LET r == callLLMReturn(inv[i].req, out)
       IN  inv' = [inv EXCEPT ![i] =
                      IF r.thrown # <<>>
                      THEN fixSQL(Log(@, <<"failed", "explain", out.kind, out.text>>), r.thrown)
                      ELSE Display(Html(Log(@, <<"response", "explain", out.text>>),
                                        <<"Answer", r.text>>))]
    /\ nlResults' = Shown(inv'[i], nlResults)
    /\ queryHistory' = addToHistory(inv'[i], queryHistory)
    /\ UNCHANGED <<db, databases, settings, sqlResults, runLog, user>>

\* the fetch of fixSQL comes back: lines 460-491
RepairReturns(i, out, zr) ==
    /\ inv[i].pc = "repairing"
    /\ LET r == callLLMReturn(inv[i].req, out)
       IN  IF r.thrown # <<>>
           THEN /\ inv' = [inv EXCEPT ![i] =
                              OuterCatch([Log(@, <<"failed", "repair", out.kind, out.text>>)
                                             EXCEPT !.thrown = r.thrown])]
                /\ UNCHANGED databases
           ELSE LET e == ExecuteFixed(Log(inv[i], <<"response", "repair", out.text>>),
                                      r.text, databases[db], zr)
                IN  /\ inv' = [inv EXCEPT ![i] = e.v]
                    /\ databases' = [databases EXCEPT ![db] = e.dbc]
    /\ nlResults' = Shown(inv'[i], nlResults)
    /\ queryHistory' = addToHistory(inv'[i], queryHistory)
    /\ UNCHANGED <<db, settings, sqlResults, runLog, user>>

(* ------------------------------- runSQL ------------------------------- *)

\* texts the user may have typed into the SQL editor
EditorTexts ==
    { <<>>,
      <<"SELECT 1", ";", "SELECT a", ";">>,
      <<"CREATE b", ";", "INSERT a", ";", "SELECT b">>,
      <<"SELECT 1", ";", "CREATE b", ";", "CREATE b", ";", "INSERT a">> }

\* lines 701-712: each statement is executed on its own; a statement that
\* returned a result object adds {statement, result, index}
\* RunStatements with the try inside the loop: a statement that raises is
\* skipped and the results collected so far are kept
RECURSIVE RunStatementsKeep(_, _, _, _, _)
RunStatementsKeep(dbc, statements, index, zr, acc) ==
    IF index > Len(statements)
    THEN [raised |-> FALSE, message |-> <<>>, db |-> dbc, all |-> acc.all, log |-> acc.log]
    ELSE LET r == EngineExec(dbc, statements[index], zr)
             l == Append(acc.log, <<"exec", db, statements[index],
                                    r.raised, r.message, r.results>>)
         IN  RunStatementsKeep(r.db, statements, index + 1, zr,
                               [all |-> IF HasResults(r.results)
                                        THEN Append(acc.all,
                                                    [statement |-> statements[index],
                                                     result |-> r.results[1],
                                                     index |-> index])
                                        ELSE acc.all,
                                log |-> l])

RECURSIVE RunStatements(_, _, _, _, _)
RunStatements(dbc, statements, index, zr, acc) ==
    IF index > Len(statements)
    THEN [raised |-> FALSE, message |-> <<>>, db |-> dbc, all |-> acc.all, log |-> acc.log]
    ELSE LET r == EngineExec(dbc, statements[index], zr)
             l == Append(acc.log, <<"exec", db, statements[index],
                                    r.raised, r.message, r.results>>)
         IN  IF r.raised
             THEN [raised |-> TRUE, message |-> r.message, db |-> r.db,
                   all |-> <<>>, log |-> l]
             ELSE RunStatements(r.db, statements, index + 1, zr,
                                [all |-> IF HasResults(r.results)
                                         THEN Append(acc.all,
                                                     [statement |-> statements[index],
                                                      result |-> r.results[1],
                                                      index |-> index])
                                         ELSE acc.all,
                                 log |-> l])

\* lines 714-725: what is shown for the collected results
RECURSIVE RenderAll(_, _)
RenderAll(allResults, many) ==
    IF allResults = <<>> THEN <<>>
    ELSE (IF many THEN << <<"Statement", Head(allResults).index>> >> ELSE <<>>)
         \o << <<"Results", Head(allResults).result>> >>
         \o RenderAll(Tail(allResults), many)

\* the Run button of the SQL editor (lines 681-729) on the editor's text
runSQL(text, zr) ==
    /\ user < MaxUser
    /\ user' = user + 1
    /\ LET sql == Trim(text)
       IN  IF sql = <<>> \/ db = NoDb
           THEN UNCHANGED <<databases, sqlResults, runLog>>
           ELSE LET statements == SelectSeq(SplitSemi(sql), NonBlank)
                    r == RunStatements(databases[db], statements, 1, zr,
                                       [all |-> <<>>, log |-> <<>>])
                IN  /\ databases' = [databases EXCEPT ![db] = r.db]
                    /\ runLog' = r.log
                    /\ sqlResults' =
                          IF r.raised THEN << <<"SQL Error", r.message>> >>
                          ELSE IF r.all = <<>>
                          THEN << <<"Query executed successfully (no results to display)">> >>
                          ELSE RenderAll(r.all, Len(r.all) > 1)
    /\ UNCHANGED <<db, settings, inv, nlResults, queryHistory>>

(* --------------------------- other handlers --------------------------- *)

\* saveSettings: the provider and the key are taken from the settings form
saveSettings(provider, apiKey) ==
    /\ user < MaxUser
    /\ user' = user + 1
    /\ settings' = [provider |-> provider, apiKey |-> apiKey]
    /\ UNCHANGED <<db, databases, inv, nlResults, queryHistory, sqlResults, runLog>>

\* createNewDatabase: an empty database under the name, made current
createNewDatabase(dbName) ==
    /\ user < MaxUser
    /\ user' = user + 1
    /\ databases' = (dbName :> <<>>) @@ databases
    /\ db' = dbName
    /\ UNCHANGED <<settings, inv, nlResults, queryHistory, sqlResults, runLog>>

\* switchDatabase: the chosen database becomes the current one
switchDatabase(dbName) ==
    /\ user < MaxUser
    /\ user' = user + 1
    /\ dbName \in DOMAIN databases
    /\ db' = dbName
    /\ UNCHANGED <<databases, settings, inv, nlResults, queryHistory, sqlResults, runLog>>

\* the handlers of the user other than the query button
UserAction ==
    \/ \E text \in EditorTexts, zr \in BOOLEAN : runSQL(text, zr)
    \/ \E p \in Providers, k \in ApiKeys : saveSettings(p, k)
    \/ \E n \in DbNames : createNewDatabase(n)
    \/ \E n \in DbNames : switchDatabase(n)

\* one invocation of the pipeline, any completion, and the user's handlers
Next ==
    \/ \E i \in Solo, q \in Questions : executeNLQuery(i, q)
    \/ \E i \in Solo, out \in FetchOutcomes(SqlResponses), zr \in BOOLEAN :
          GenerateReturns(i, out, zr)
    \/ \E i \in Solo, out \in FetchOutcomes(ExplainResponses) : ExplainReturns(i, out)
    \/ \E i \in Solo, out \in FetchOutcomes(SqlResponses), zr \in BOOLEAN :
          RepairReturns(i, out, zr)
    \/ UserAction

Spec == Init /\ [][Next]_vars

\* every fetch of a provider call comes back at some time, with a completion
\* or with a failure
FetchesReturn ==
    \A i \in Solo :
        /\ WF_vars(\E out \in FetchOutcomes(SqlResponses), zr \in BOOLEAN :
                      GenerateReturns(i, out, zr))
        /\ WF_vars(\E out \in FetchOutcomes(ExplainResponses) : ExplainReturns(i, out))
        /\ WF_vars(\E out \in FetchOutcomes(SqlResponses), zr \in BOOLEAN :
                      RepairReturns(i, out, zr))

SpecFair == Init /\ [][Next]_vars /\ FetchesReturn

(* -------------------- the pipeline on any completion ------------------- *)
(* One invocation on a database with one table, whose generate call comes  *)
(* back with any completion of up to MaxText tokens, or with one of a few  *)
(* longer ones that hold two fenced blocks.                                *)

CleanTokens == {Fence, "sql", "\n", "SELECT 1", "SELECT a", Tick}

TwoBlockTexts ==
    { <<"here:", Fence, "sql", "\n", "SELECT a", "\n", Fence, "or", Fence, "SELECT 1", Fence>>,
      <<Fence, "SELECT 1", Fence, Fence, "SELECT a", Fence>>,
      <<Fence, Fence, Fence, "sql", "SELECT a", Fence>>,
      <<Fence, "SQL", " ", "SELECT 1", ";", " ", Fence, "\n", Fence, "sql">> }

\* a single backtick next to a fence would make a run of four backticks, which
\* the tokens cannot tell from a fence next to a single backtick: left out
CleanTexts ==
    {t \in UNION {[1..n -> CleanTokens] : n \in 0..MaxText} :
        \A k \in 1..(Len(t) - 1) : {t[k], t[k + 1]} # {Tick, Fence}}
    \cup TwoBlockTexts

InitClean ==
    /\ Init
    /\ db = "x.db"
    /\ databases = ("x.db" :> <<[name |-> "a", rows |-> 1]>>)
    /\ settings = [provider |-> "openai", apiKey |-> "key"]

NextClean ==
    \/ executeNLQuery(1, <<"how many rows">>)
    \/ \E text \in CleanTexts : GenerateReturns(1, [kind |-> "ok", text |-> text], FALSE)

SpecClean == InitClean /\ [][NextClean]_vars

(* ------------------------ reading any schema --------------------------- *)
(* Two invocations on one database of any catalog of up to MaxTables       *)
(* tables; the first completion that comes back may change the rows or     *)
(* the catalog before the other invocation reads the schema.               *)

SchemaTables == {"a", "b", "c"}

SchemaCatalogs ==
    {c \in UNION {[1..n -> SchemaTables] : n \in 0..MaxTables} :
        \A j, k \in DOMAIN c : j # k => c[j] # c[k]}

SchemaSqlResponses ==
    { <<"INSERT a">>, <<"CREATE b">>, <<"SELECT a">>, <<"CREATE b", ";", "CREATE b">> }

InitSchema ==
    /\ db = "x.db"
    /\ \E c \in SchemaCatalogs :
          databases = ("x.db" :> [k \in DOMAIN c |-> [name |-> c[k], rows |-> 0]])
    /\ settings = [provider |-> "openai", apiKey |-> "key"]
    /\ inv = [i \in Invs |-> NewInv]
    /\ nlResults = <<>>
    /\ queryHistory = <<>>
    /\ sqlResults = <<>>
    /\ runLog = <<>>
    /\ user = 0

NextSchema ==
    \/ \E i \in Invs : executeNLQuery(i, <<"how many rows">>)
    \/ \E i \in Invs, t \in SchemaSqlResponses :
          GenerateReturns(i, [kind |-> "ok", text |-> t], FALSE)

SpecSchema == InitSchema /\ [][NextSchema]_vars

(* ------------------------ two clicks on the button --------------------- *)
(* The query button (or Enter) can be used again while an invocation is    *)
(* suspended in a fetch: the handler is registered without any guard.      *)

TwoSqlResponses == { <<"SELECT 1">>, <<"SELECT b">>, <<"CREATE b">> }

InitTwo ==
    /\ Init
    /\ db = "x.db"
    /\ DOMAIN databases = {"x.db", "y.db"}
    /\ settings = [provider |-> "openai", apiKey |-> "key"]

NextTwo ==
    \/ \E i \in Invs : executeNLQuery(i, <<"how many rows">>)
    \/ \E i \in Invs, out \in FetchOutcomes(TwoSqlResponses) : GenerateReturns(i, out, FALSE)
    \/ \E i \in Invs, out \in FetchOutcomes(ExplainResponses) : ExplainReturns(i, out)
    \/ \E i \in Invs, out \in FetchOutcomes(TwoSqlResponses) : RepairReturns(i, out, FALSE)
    \/ \E n \in DbNames : switchDatabase(n)

SpecTwo == InitTwo /\ [][NextTwo]_vars

(* ------------------------- reading an invocation ---------------------- *)

\* the events of one kind in an invocation's log, in order
Events(v, kind) == SelectSeq(v.log, LAMBDA e : e[1] = kind)

\* the provider calls of one purpose
Calls(v, purpose) == SelectSeq(v.log, LAMBDA e : e[1] = "call" /\ e[2] = purpose)

\* the engine submissions; of one: its SQL, whether it raised, the message, the results
Execs(v) == Events(v, "exec")
ExecSql(e) == e[3]
ExecRaised(e) == e[4]
ExecMessage(e) == e[5]
ExecResults(e) == e[6]

\* the fragments of one kind in an html
Fragments(html, kind) == SelectSeq(html, LAMBDA f : f[1] = kind)

\* the repair call came back with a text (the invocation went on to line 461)
RepairCameBack(v) == v.end = "displayed" /\ Len(Calls(v, "repair")) = 1

(* ------------------------------- claims ------------------------------- *)

\* C1: in every invocation at most one repair provider call and at most two
\* engine submissions are made, and a re-execution that raised is the last
\* thing the invocation did: no provider call or submission follows it.
C1_OneRepairTwoSubmissions ==
    \A i \in Invs :
        LET v == inv[i]
        IN  /\ Len(Calls(v, "repair")) <= 1
            /\ Len(Execs(v)) <= 2
            /\ (Len(Execs(v)) = 2 /\ ExecRaised(Execs(v)[2])) =>
                  /\ v.pc = "done"
                  /\ v.log[Len(v.log)] = Execs(v)[2]

C1_Witness ==
    \E i \in Invs :
        /\ Len(Execs(inv[i])) = 2
        /\ ExecRaised(Execs(inv[i])[1])
        /\ ExecRaised(Execs(inv[i])[2])
        /\ Len(Calls(inv[i], "repair")) = 1

\* C2: whenever the first engine execution raised, exactly one repair call was
\* made, and its prompt carries the failing SQL, the engine's message
\* unchanged, and the schema text that the generate prompt carried.
C2_RepairPromptAfterEngineError ==
    \A i \in Invs :
        LET v == inv[i]
        IN  (Len(Execs(v)) >= 1 /\ ExecRaised(Execs(v)[1])) =>
               /\ Len(Calls(v, "repair")) = 1
               /\ Calls(v, "repair")[1][3] =
                     <<"repair", ExecSql(Execs(v)[1]), ExecMessage(Execs(v)[1]),
                       Calls(v, "generate")[1][3][2]>>

C2_Witness ==
    \E i \in Invs :
        /\ inv[i].pc = "repairing"
        /\ Len(Execs(inv[i])) = 1
        /\ ExecRaised(Execs(inv[i])[1])
        /\ ExecMessage(Execs(inv[i])[1]) = <<"no such table", "b">>
        /\ inv[i].schema # <<>>

ExplainFailed(v) ==
    /\ Len(Calls(v, "explain")) = 1
    /\ v.pc # "explaining"
    /\ Fragments(v.html, "Answer") = <<>>

\* C4 as claimed: when the first execution yielded rows and the explain call
\* failed, the invocation ends with the generated SQL and its rows displayed,
\* no explanation, no error, and no repair call.
C4_ExplainFailureIsNotFatal ==
    \A i \in Invs :
        LET v == inv[i]
        IN  ExplainFailed(v) =>
               /\ v.pc = "done"
               /\ v.end = "displayed"
               /\ Calls(v, "repair") = <<>>
               /\ v.html = << <<"Generated SQL", v.sqlQuery>>,
                              <<"Results", FirstResult(ExecResults(Execs(v)[1]))>> >>

\* C5: once the repaired SQL was executed the invocation is over and displays
\* what matches the outcome: the corrected SQL and (if any) its result when the
\* engine did not raise, and both the original error and the error of the
\* repaired SQL when it raised.
C5_TerminalMatchesReExecution ==
    \A i \in Invs :
        LET v == inv[i]
        IN  Len(Execs(v)) = 2 =>
               LET first  == Execs(v)[1]
                   second == Execs(v)[2]
                   n      == Len(v.html)
               IN  /\ v.pc = "done"
                   /\ v.end = "displayed"
                   /\ ExecRaised(first) => v.sqlError = ExecMessage(first)
                   /\ Fragments(v.html, "SQL Error") = << <<"SQL Error", v.sqlError>> >>
                   /\ Fragments(v.html, "Fixed SQL") = << <<"Fixed SQL", ExecSql(second)>> >>
                   /\ IF ExecRaised(second)
                      THEN /\ v.html[n] = <<"Fixed SQL also failed", ExecMessage(second)>>
                           /\ v.html[n - 1] = <<"Fixed SQL", ExecSql(second)>>
                      ELSE /\ Fragments(v.html, "Fixed SQL also failed") = <<>>
                           /\ IF ExecResults(second) # <<>>
                              THEN /\ v.html[n] = <<"Results", ExecResults(second)[1]>>
                                   /\ v.html[n - 1] = <<"Fixed SQL", ExecSql(second)>>
                              ELSE v.html[n] = <<"Fixed SQL", ExecSql(second)>>

C5_Witness ==
    \E i \in Invs :
        /\ Len(Execs(inv[i])) = 2
        /\ ExecRaised(Execs(inv[i])[1])
        /\ ExecRaised(Execs(inv[i])[2])
        /\ ExecMessage(Execs(inv[i])[1]) # ExecMessage(Execs(inv[i])[2])
        /\ nlResults = inv[i].html

\* C6: an invocation that starts with an empty question, with no database
\* loaded or with an empty API key ends at once with the alert of the failed
\* check, having read no schema, made no request and executed nothing.
C6_PreconditionFailureDoesNoWork ==
    [][\A i \in Invs :
          (/\ inv[i].pc = "idle"
           /\ inv'[i].pc # "idle"
           /\ (inv'[i].query = <<>> \/ db = NoDb \/ settings.apiKey = ""))
          => /\ inv'[i].pc = "done"
             /\ inv'[i].end = "precondition"
             /\ inv'[i].alert # ""
             /\ inv'[i].log = <<>>
             /\ UNCHANGED <<databases, nlResults, queryHistory>>]_vars

C6_Witness ==
    \E i \in Invs :
        /\ inv[i].end = "precondition"
        /\ inv[i].alert = "Please configure your API key in settings"
        /\ settings.provider \in KnownProviders
        /\ db # NoDb

\* C7 as claimed: when the first execution did not raise, the invocation makes
\* no repair call and ends displayed, and the explain call is made exactly when
\* the execution returned a result object.
C7_NoRepairAfterRowsOrEmpty ==
    \A i \in Invs :
        LET v == inv[i]
        IN  (Len(Execs(v)) >= 1 /\ ~ExecRaised(Execs(v)[1])) =>
               /\ Calls(v, "repair") = <<>>
               /\ (Len(Calls(v, "explain")) = 1) <=> (ExecResults(Execs(v)[1]) # <<>>)
               /\ Len(Calls(v, "explain")) <= 1
               /\ v.pc = "done" => v.end = "displayed"

\* the result objects that an html shows, in order
ResultsShown(html) ==
    LET f == Fragments(html, "Results") IN [k \in DOMAIN f |-> f[k][2]]

\* the result objects of a sequence of exec events, in order
RECURSIVE ResultsOf(_)
ResultsOf(events) ==
    IF events = <<>> THEN <<>> ELSE ExecResults(Head(events)) \o ResultsOf(Tail(events))

NoResultsNotice == << <<"Query executed successfully (no results to display)">> >>

\* C8: a submission in which the engine raised is reported as the engine's
\* error alone. In the pipeline the first submission that raised is followed
\* by its SQL Error and shows no result, and the results shown are those of
\* submissions that did not raise; in the editor the statement that raised is
\* the last one executed and only its SQL Error is shown.
C8_RaiseIsErrorForWholeSubmission ==
    /\ \A i \in Invs :
          LET v == inv[i]
          IN  /\ (Len(Execs(v)) >= 1 /\ ExecRaised(Execs(v)[1])) =>
                    SubSeq(v.html, 1, 2) = << <<"Generated SQL", ExecSql(Execs(v)[1])>>,
                                              <<"SQL Error", ExecMessage(Execs(v)[1])>> >>
              /\ (Len(Execs(v)) = 2 /\ ExecRaised(Execs(v)[2])) =>
                    v.html[Len(v.html)] = <<"Fixed SQL also failed", ExecMessage(Execs(v)[2])>>
              /\ Len(ResultsShown(v.html)) =
                    Cardinality({k \in DOMAIN Execs(v) :
                                    ~ExecRaised(Execs(v)[k]) /\ ExecResults(Execs(v)[k]) # <<>>})
    /\ \A k \in DOMAIN runLog :
          ExecRaised(runLog[k]) =>
              /\ k = Len(runLog)
              /\ sqlResults = << <<"SQL Error", ExecMessage(runLog[k])>> >>

\* a three-statement text whose first statement returned rows raised at its third
C8_Witness ==
    \E i \in Invs :
        /\ Len(Execs(inv[i])) = 1
        /\ ExecSql(Execs(inv[i])[1]) = <<"SELECT a", ";", "INSERT a", ";", "SELECT b">>
        /\ ExecMessage(Execs(inv[i])[1]) = <<"no such table", "b">>
        /\ \E k \in DOMAIN databases[db] :
              databases[db][k].name = "a" /\ databases[db][k].rows > 0
        /\ inv[i].pc = "repairing"

\* C9 as claimed: a submission that did not raise reports one result per
\* statement that returned a result object, in source order.
C9_OneEntryPerResultStatement ==
    /\ \A i \in Invs :
          (Len(Execs(inv[i])) = 1 /\ ~ExecRaised(Execs(inv[i])[1])) =>
              ResultsShown(inv[i].html) = ExecResults(Execs(inv[i])[1])
    /\ (runLog # <<>> /\ ~ExecRaised(runLog[Len(runLog)])) =>
          ResultsShown(sqlResults) = ResultsOf(runLog)

\* C10: a submission that did not raise is classified by whether it returned a
\* result object, not by rows: with none the pipeline shows the no-results
\* notice, and with one it shows that result, even with no row in it; the
\* editor shows its no-results notice exactly when no statement returned a
\* result object.
C10_EmptyIffNoResultObject ==
    /\ \A i \in Invs :
          LET v == inv[i]
          IN  (Len(Execs(v)) >= 1 /\ ~ExecRaised(Execs(v)[1])) =>
                 IF ExecResults(Execs(v)[1]) = <<>>
                 THEN v.html[2] = <<"Query returned no results">>
                 ELSE v.html[2] = <<"Results", ExecResults(Execs(v)[1])[1]>>
    /\ (runLog # <<>> /\ ~ExecRaised(runLog[Len(runLog)])) =>
          /\ (ResultsOf(runLog) = <<>>) <=> (sqlResults = NoResultsNotice)
          /\ (ResultsOf(runLog) # <<>>) => ResultsShown(sqlResults) # <<>>

\* a result object without rows was classified as rows
C10_Witness ==
    \E i \in Invs :
        /\ Len(Execs(inv[i])) >= 1
        /\ ~ExecRaised(Execs(inv[i])[1])
        /\ ExecResults(Execs(inv[i])[1]) # <<>>
        /\ ExecResults(Execs(inv[i])[1])[1].values = <<>>
        /\ inv[i].html[2][1] = "Results"

\* whether a text holds a backtick: a single one, or the three of a fence
HasBacktick(text) == \E k \in DOMAIN text : text[k] \in {Tick, Fence}

\* C11 as claimed: no SQL text that an invocation submitted to the engine, the
\* generated one or the repaired one, holds a backtick.
C11_NoBacktickReachesEngine ==
    \A i \in Invs : \A k \in DOMAIN Execs(inv[i]) : ~HasBacktick(ExecSql(Execs(inv[i])[k]))


\* the fenced blocks of a text: a block opens at a fence and closes at the
\* next one; its content is what lies between, without a leading sql tag
FencesOf(text) == {k \in DOMAIN text : text[k] = Fence}

HasFencedBlock(text) == \E i, j \in FencesOf(text) : i < j

FirstBlockContent(text) ==
    LET open  == CHOOSE i \in FencesOf(text) : \A k \in FencesOf(text) : i <= k
        close == CHOOSE j \in FencesOf(text) :
                    j > open /\ \A k \in FencesOf(text) : k > open => j <= k
        body  == SubSeq(text, open + 1, close - 1)
    IN  IF body # <<>> /\ body[1] \in {"sql", "SQL"} THEN Tail(body) ELSE body

Cleaned(text) == IF HasFencedBlock(text) THEN Trim(FirstBlockContent(text)) ELSE Trim(text)

\* what an invocation took as the text of the provider call of a purpose
TakenAs(v, purpose) ==
    CASE purpose = "generate" -> v.sqlQuery
      [] purpose = "repair" -> v.fixedSQL
      [] purpose = "explain" -> Fragments(v.html, "Answer")[1][2]

\* C12: the text an invocation takes from a completion is the trimmed content
\* of the completion's first fenced block when it has one (nothing of a later
\* block), and the trimmed completion when it has none.
C12_CleaningTakesFirstBlock ==
    \A i \in Invs : \A k \in DOMAIN Events(inv[i], "response") :
        LET e == Events(inv[i], "response")[k]
        IN  TakenAs(inv[i], e[2]) = Cleaned(e[3])

\* a completion with two fenced blocks of different content was cleaned
C12_Witness ==
    \E i \in Invs : \E k \in DOMAIN Events(inv[i], "response") :
        LET e == Events(inv[i], "response")[k]
        IN  /\ e[3] = <<"here:", Fence, "sql", "\n", "SELECT a", "\n", Fence,
                        "or", Fence, "SELECT 1", Fence>>
            /\ inv[i].sqlQuery = <<"SELECT a">>
            /\ Len(Execs(inv[i])) = 1


\* an invocation is in flight while it is suspended in the fetch of a provider call
InFlight(v) == v.pc \in {"generating", "explaining", "repairing"}

\* C13 as claimed: at most one invocation is in flight at any time.
C13_OneInvocationInFlight == Cardinality({i \in Invs : InFlight(inv[i])}) <= 1


\* the errors that callLLM throws
ProviderFailures ==
    {<<"Failed to fetch">>, <<"Unknown LLM provider">>}
    \cup {<<ProviderLabel(p), "Unauthorized">> : p \in KnownProviders}

\* how an invocation that made its generate call may have ended: with its html
\* displayed, which closes with the outcome of the last thing it did, or with
\* the error of a provider call displayed
EndedAsSpecified(v) ==
    \/ /\ v.end = "displayed"
       /\ v.html # <<>>
       /\ v.html[Len(v.html)][1] \in
             {"Answer", "Query returned no results", "Results", "Fixed SQL",
              "Fixed SQL also failed", "Attempting to fix SQL"}
    \/ /\ v.end = "error"
       /\ v.thrown \in ProviderFailures

\* C14: when every fetch comes back, an invocation that is suspended in its
\* generate call is over at some later time, and an invocation that made its
\* generate call and is over has its outcome displayed (the SQL with its
\* result or the engine's errors) or the error of a provider call displayed.
C14_GeneratingRunsToAnEnd ==
    /\ [](\A i \in Invs :
             (Calls(inv[i], "generate") # <<>> /\ inv[i].pc = "done") =>
                 EndedAsSpecified(inv[i]))
    /\ \A i \in Solo : (inv[i].pc = "generating") ~> (inv[i].pc = "done")

\* an invocation went through both executions and its repair, and is over
C14_Witness ==
    \E i \in Invs :
        /\ inv[i].pc = "done"
        /\ Len(Calls(inv[i], "generate")) = 1
        /\ Len(Calls(inv[i], "repair")) = 1
        /\ Len(Execs(inv[i])) = 2
        /\ inv[i].end = "displayed"


\* the schema read of the current database raises: the PRAGMA of one of its
\* tables does
SchemaReadRaises == \E k \in DOMAIN databases[db] : PragmaRaises(databases[db][k].name)

\* C15: an invocation that passes the precondition checks on a database whose
\* schema read raises is over at once with the engine's error displayed; it
\* made no provider call and no engine execution, and the database is as it was.
C15_SchemaErrorAbortsAtOnce ==
    [][\A i \in Invs :
          (/\ inv[i].pc = "idle"
           /\ inv'[i].pc # "idle"
           /\ inv'[i].end # "precondition"
           /\ SchemaReadRaises)
          => /\ inv'[i].pc = "done"
             /\ inv'[i].end = "error"
             /\ inv'[i].thrown # <<>>
             /\ inv'[i].thrown[1] = "syntax error"
             /\ inv'[i].log = << <<"schema", db, Catalog(databases[db])>> >>
             /\ nlResults' = << <<"Error", inv'[i].thrown>> >>
             /\ UNCHANGED <<databases, queryHistory>>]_vars

C15_Witness ==
    \E i \in Invs :
        /\ inv[i].end = "error"
        /\ inv[i].thrown = <<"syntax error", "order">>
        /\ Events(inv[i], "schema") # <<>>
        /\ Calls(inv[i], "generate") = <<>>
        /\ nlResults = << <<"Error", <<"syntax error", "order">> >> >>


\* the provider calls of an invocation, and the requests it sent
AllCalls(v) == Events(v, "call")
Fetches(v) == Events(v, "fetch")

\* C16: a provider call made while the configured provider is none that
\* callLLM knows sends no request, and ends the invocation with the error
\* 'Unknown LLM provider' displayed.
C16_UnknownProviderSendsNothing ==
    [][\A i \in Invs :
          (/\ Len(AllCalls(inv'[i])) > Len(AllCalls(inv[i]))
           /\ settings.provider \notin KnownProviders)
          => /\ Len(Fetches(inv'[i])) = Len(Fetches(inv[i]))
             /\ inv'[i].log[Len(inv'[i].log)][1] = "call"
             /\ inv'[i].pc = "done"
             /\ inv'[i].end = "error"
             /\ inv'[i].thrown = <<"Unknown LLM provider">>
             /\ nlResults' = << <<"Error", <<"Unknown LLM provider">> >> >>]_vars

C16_Witness ==
    \E i \in Invs :
        /\ inv[i].end = "error"
        /\ inv[i].thrown = <<"Unknown LLM provider">>
        /\ Len(Calls(inv[i], "generate")) = 1
        /\ Fetches(inv[i]) = <<>>
        /\ settings.provider = "lmstudio"


\* the requests sent for the provider call at position k of an invocation's
\* log: the fetch events after it and before the next provider call
RequestsOf(v, k) ==
    LET later == {j \in DOMAIN v.log : j > k /\ v.log[j][1] = "call"}
    IN  Cardinality({j \in DOMAIN v.log :
                        /\ j > k
                        /\ v.log[j][1] = "fetch"
                        /\ \A c \in later : j < c})

\* the error that a failed provider call left in the invocation: the one the
\* outer catch displays, or for the explain call the one the inner catch took
ErrorOf(v, purpose) == IF purpose = "explain" THEN v.sqlError ELSE v.thrown

\* C17: a provider call sends one request, at once and no other (none at all
\* only when it failed with 'Unknown LLM provider'); when the request came
\* back with a status that is not ok, the call has thrown the error that names
\* the provider it sent the request to and the status text.
C17_OneRequestPerCall ==
    \A i \in Invs :
        LET v == inv[i]
        IN  \A k \in DOMAIN v.log :
               /\ v.log[k][1] = "call" =>
                     IF k < Len(v.log) /\ v.log[k + 1][1] = "fetch"
                     THEN /\ v.log[k + 1][2] = v.log[k][2]
                          /\ RequestsOf(v, k) = 1
                     ELSE /\ RequestsOf(v, k) = 0
                          /\ ErrorOf(v, v.log[k][2]) = <<"Unknown LLM provider">>
               /\ v.log[k][1] = "fetch" => (k > 1 /\ v.log[k - 1][1] = "call")
               /\ (v.log[k][1] = "failed" /\ v.log[k][3] = "status") =>
                     /\ v.log[k - 1][1] = "fetch"
                     /\ v.log[k - 1][2] = v.log[k][2]
                     /\ ErrorOf(v, v.log[k][2]) =
                           <<ProviderLabel(v.log[k - 1][3]), v.log[k][4][1]>>

\* the repair call came back with a status that is not ok
C17_Witness ==
    \E i \in Invs :
        LET v == inv[i]
        IN  /\ v.end = "error"
            /\ v.log[Len(v.log)] = <<"failed", "repair", "status", <<"Unauthorized">> >>
            /\ v.thrown = <<"OpenAI API error", "Unauthorized">>
            /\ Len(Fetches(v)) = 2


\* the schema reads of an invocation that did not raise: the catalog listing
\* read, and the schema text sent with the generate prompt
CatalogRead(v) == Events(v, "schema")[1][3]
SchemaSent(v) == Calls(v, "generate")[1][3][2]

\* C18: two invocations whose schema reads returned the same catalog listing
\* (and with it the same column and foreign-key descriptors, which belong to
\* the table) sent the same schema text with their generate prompts, whatever
\* happened to the rows in between.
C18_SameDescriptorsSameText ==
    \A i, j \in Invs :
        (/\ Calls(inv[i], "generate") # <<>>
         /\ Calls(inv[j], "generate") # <<>>
         /\ CatalogRead(inv[i]) = CatalogRead(inv[j]))
        => SchemaSent(inv[i]) = SchemaSent(inv[j])

\* two reads of the same tables, with a row added between them
C18_Witness ==
    /\ Calls(inv[1], "generate") # <<>>
    /\ Calls(inv[2], "generate") # <<>>
    /\ CatalogRead(inv[1]) = <<"b", "a">>
    /\ CatalogRead(inv[2]) = <<"b", "a">>
    /\ Len(Execs(inv[1])) = 1
    /\ RowsOf(databases["x.db"], "a") = 1
    /\ inv[2].pc = "generating"


\* the lines at which the blocks of a schema text begin, and the block that
\* begins at one of them: the lines up to the next beginning
BlockStarts(text) == {k \in DOMAIN text : text[k][1] = "Table: "}

BlockAt(text, k) ==
    LET later == {j \in BlockStarts(text) : j > k}
        next  == IF later = {} THEN Len(text) + 1
                 ELSE CHOOSE j \in later : \A x \in later : j <= x
    IN  SubSeq(text, k + 1, next - 1)

\* the n-th beginning of a block
NthStart(text, n) ==
    CHOOSE k \in BlockStarts(text) : Cardinality({j \in BlockStarts(text) : j <= k}) = n

HasLine(block, line) == \E k \in DOMAIN block : block[k] = line

\* C19: the schema text of an invocation is made of one block per table of the
\* catalog listing it read, in that order, and nothing else; the block of a
\* table lists one line per column (none for a table without columns, whose
\* block is there all the same), and has a Foreign Keys line exactly when the
\* table has a foreign key.
C19_OneBlockPerTable ==
    \A i \in Invs :
        Calls(inv[i], "generate") # <<>> =>
            LET text    == SchemaSent(inv[i])
                catalog == CatalogRead(inv[i])
            IN  /\ Cardinality(BlockStarts(text)) = Len(catalog)
                /\ text # <<>> => 1 \in BlockStarts(text)
                /\ \A n \in DOMAIN catalog :
                      LET k     == NthStart(text, n)
                          block == BlockAt(text, k)
                          t     == catalog[n]
                      IN  /\ text[k] = <<"Table: ", t>>
                          /\ block # <<>> /\ block[Len(block)] = <<"">>
                          /\ Len(SelectSeq(block, LAMBDA l : l[1] = "  - " /\ l[3] = " ("))
                                = Len(TableInfo(t))
                          /\ HasLine(block, <<"Foreign Keys:">>) <=> ForeignKeyList(t) # <<>>
                          /\ Len(SelectSeq(block, LAMBDA l : l[1] = "  - " /\ l[3] = " -> "))
                                = Len(ForeignKeyList(t))

\* a catalog with the table without columns between two others, one of them
\* with a foreign key
C19_Witness ==
    \E i \in Invs :
        /\ Calls(inv[i], "generate") # <<>>
        /\ CatalogRead(inv[i]) = <<"b", "c", "a">>
        /\ HasLine(SchemaSent(inv[i]), <<"Table: ", "c">>)
        /\ HasLine(SchemaSent(inv[i]), <<"Foreign Keys:">>)


\* C20 as claimed: every engine submission of an invocation went to the
\* database that its schema was read from.
C20_ExecutesOnTheDatabaseOfTheSchema ==
    \A i \in Invs : \A k \in DOMAIN Execs(inv[i]) :
        Execs(inv[i])[k][2] = Events(inv[i], "schema")[1][2]


\* C21 as claimed: every request of an invocation was sent with the provider
\* and the key of its first request, the ones that passed the precondition
\* checks, and none with an empty key.
C21_RequestsUseTheCheckedSettings ==
    \A i \in Invs : \A k \in DOMAIN Fetches(inv[i]) :
        /\ Fetches(inv[i])[k][3] = Fetches(inv[i])[1][3]
        /\ Fetches(inv[i])[k][4] = Fetches(inv[i])[1][4]
        /\ Fetches(inv[i])[k][4] # ""


\* the names in the headers of the blocks of a schema text, in order
TablesIn(text) ==
    LET headers == SelectSeq(text, LAMBDA l : l[1] = "Table: ")
    IN  [k \in DOMAIN headers |-> headers[k][2]]

\* C22: an invocation that passed the precondition checks read the schema
\* once, as the first thing it did; the schema text of its generate prompt is
\* that of the catalog it read itself, and its repair prompt carries the same
\* schema text, whatever the first execution did to the tables.
C22_SchemaReadOncePerInvocation ==
    \A i \in Invs :
        LET v == inv[i]
        IN  v.log # <<>> =>
               /\ Len(Events(v, "schema")) = 1
               /\ v.log[1][1] = "schema"
               /\ Calls(v, "generate") # <<>> =>
                     /\ TablesIn(SchemaSent(v)) = CatalogRead(v)
                     /\ SchemaSent(v) = v.schema
               /\ Calls(v, "repair") # <<>> =>
                     Calls(v, "repair")[1][3][4] = SchemaSent(v)

\* the first execution created a table and then raised; the repair prompt has
\* the schema without that table, and the next invocation read it with it
C22_Witness ==
    /\ Calls(inv[1], "repair") # <<>>
    /\ CatalogRead(inv[1]) = <<"a">>
    /\ Catalog(databases["x.db"]) = <<"a", "b">>
    /\ ExecMessage(Execs(inv[1])[1]) = <<"table already exists", "b">>
    /\ Calls(inv[2], "generate") # <<>>
    /\ CatalogRead(inv[2]) = <<"a", "b">>


\* the positions in an invocation's log of its engine submissions and of its
\* explain calls
ExecPositions(v) == {k \in DOMAIN v.log : v.log[k][1] = "exec"}
ExplainPositions(v) == {k \in DOMAIN v.log : v.log[k][1] = "call" /\ v.log[k][2] = "explain"}

\* C23: an invocation makes at most one explain call, right after a first
\* execution that returned a result and for that result; once the repaired SQL
\* was executed no explain call follows, and what is displayed holds no answer.
C23_ExplainOnlyForFirstExecution ==
    \A i \in Invs :
        LET v == inv[i]
        IN  /\ \A k \in ExplainPositions(v) :
                  /\ k > 1
                  /\ v.log[k - 1] = Execs(v)[1]
                  /\ ~ExecRaised(Execs(v)[1])
                  /\ v.log[k][3] = explainPrompt(v.query, ExecSql(Execs(v)[1]),
                                                 ExecResults(Execs(v)[1])[1])
                  /\ Cardinality({e \in ExecPositions(v) : e < k}) = 1
            /\ Cardinality(ExplainPositions(v)) <= 1
            /\ Len(Execs(v)) = 2 => Fragments(v.html, "Answer") = <<>>

\* the repaired SQL returned rows, and the invocation ended without an answer
C23_Witness ==
    \E i \in Invs :
        /\ Len(Execs(inv[i])) = 2
        /\ ExecRaised(Execs(inv[i])[1])
        /\ ~ExecRaised(Execs(inv[i])[2])
        /\ ExecResults(Execs(inv[i])[2]) # <<>>
        /\ inv[i].end = "displayed"
        /\ Calls(inv[i], "explain") = <<>>
        /\ inv[i].html[Len(inv[i].html)][1] = "Results"


\* the database after the statements of a list of pieces that come before the
\* first one that raises (after all of them when none raises)
RECURSIVE PrefixApplied(_, _)
PrefixApplied(dbc, pieces) ==
    IF pieces = <<>> THEN dbc
    ELSE LET st == SelectSeq(Head(pieces), LAMBDA x : x \notin WS)
         IN  IF st = <<>> THEN PrefixApplied(dbc, Tail(pieces))
             ELSE IF Len(st) # 1 \/ st[1] \notin StmtTokens THEN dbc
             ELSE IF ExecStmt(dbc, st[1], FALSE).raised THEN dbc
             ELSE PrefixApplied(ExecStmt(dbc, st[1], FALSE).db, Tail(pieces))

\* the pieces of the texts of a sequence of exec events, in order
RECURSIVE PiecesOf(_)
PiecesOf(events) ==
    IF events = <<>> THEN <<>> ELSE SplitSemi(ExecSql(Head(events))) \o PiecesOf(Tail(events))

\* C24: a step in which a SQL text is submitted leaves the current database
\* as the statements before the first one that raised made it, never as it
\* was before the submission and never with a later statement applied, and
\* the other databases as they were; the outcome of a submission, that of the
\* repaired SQL included, is the one the engine gives on the database as the
\* step found it. In the editor the statement that raised is the last one run.
C24_PartialExecutionStays ==
    [][/\ \A i \in Invs :
             Len(Execs(inv'[i])) > Len(Execs(inv[i])) =>
                LET e == Execs(inv'[i])[Len(Execs(inv'[i]))]
                IN  /\ databases'[db] = PrefixApplied(databases[db], SplitSemi(ExecSql(e)))
                    /\ ExecRaised(e) = EngineExec(databases[db], ExecSql(e), FALSE).raised
                    /\ ExecMessage(e) = EngineExec(databases[db], ExecSql(e), FALSE).message
                    /\ \A n \in DOMAIN databases : n # db => databases'[n] = databases[n]
       /\ runLog' # runLog =>
             /\ databases'[db] = PrefixApplied(databases[db], PiecesOf(runLog'))
             /\ \A k \in DOMAIN runLog' : ExecRaised(runLog'[k]) => k = Len(runLog')
             /\ \A n \in DOMAIN databases : n # db => databases'[n] = databases[n]]_vars

\* the generated SQL added a row and raised at its third statement; the
\* repaired SQL then read both rows
C24_Witness ==
    \E i \in Invs :
        /\ Len(Execs(inv[i])) = 2
        /\ ExecSql(Execs(inv[i])[1]) = <<"SELECT a", ";", "INSERT a", ";", "SELECT b">>
        /\ ExecMessage(Execs(inv[i])[1]) = <<"no such table", "b">>
        /\ ExecSql(Execs(inv[i])[2]) = <<"SELECT a">>
        /\ Len(ExecResults(Execs(inv[i])[2])[1].values) = 2
        /\ RowsOf(databases[db], "a") = 2


====
